---------------------------- MODULE Spec2Model ----------------------------
(***************************************************************************)
(* A model of the yapf language-server adapter (bundled/tool/lsp_server.py *)
(* and bundled/tool/lsp_utils.py).                                         *)
(*                                                                         *)
(* Texts are sequences of one-character strings.  A request handler is one *)
(* action; the in-process run of the tool is also modelled step by step    *)
(* for several worker threads (SpecRun).                                   *)
(***************************************************************************)
EXTENDS Integers, Sequences, FiniteSets, TLC

VARIABLES
    document,            \* the open document: [source, path, notebook]
    WORKSPACE_SETTINGS,  \* lsp_server.WORKSPACE_SETTINGS: the settings records, keyed by workspaceFS
    GLOBAL_SETTINGS,     \* lsp_server.GLOBAL_SETTINGS: [has, path, interpreter, args, cellMagics]
    request,             \* the last request handled: [method, start, end]
    response,            \* what the client got for it: [kind, null, edits, error]
    invocations,         \* the formatter invocations made for it, in order, each with
                         \* what the formatter then did: [backend, argv, cwd, source, wrote, errors, ending]
    log,                 \* the messages logged for it, in order
    sys,                 \* sys.argv, sys.stdin, sys.stdout, sys.stderr of the server process
    cwd,                 \* the working directory of the server process
    CWD_LOCK,            \* lsp_utils.CWD_LOCK: 0 when free, else the worker holding it
    pc,                  \* where each worker is in run_module / run_api
    job,                 \* what each worker runs: [cwd, argv, changed, saved]
    le,                  \* line-ending match: [doc, text, out, done]
    magic                \* cell-magic masking: [text, magics, encoded, decoded, done]

vars == <<document, WORKSPACE_SETTINGS, GLOBAL_SETTINGS, request, response,
          invocations, log, sys, cwd, CWD_LOCK, pc, job, le, magic>>

---------------------------------------------------------------------------
(* Characters and texts *)

CR == "\r"
LF == "\n"
TAB == "\t"
SP == " "
CRLF == <<CR, LF>>

\* the other characters str.splitlines ends a line at; those a string of this
\* module cannot hold are written as Python writes them
FF == "\f"
VT == "\\v"
FS == "\\x1c"
GS == "\\x1d"
RS == "\\x1e"
NEL == "\\x85"
LS == "\\u2028"
PS == "\\u2029"

\* the line boundaries of str.splitlines, "\r\n" counting as one
LineBoundaries == {LF, CR, VT, FF, FS, GS, RS, NEL, LS, PS}

\* the longest text given to _match_line_endings, in lines
MaxLines == 2

RECURSIVE Concat(_)
\* "".join(parts)
Concat(parts) ==
    IF parts = <<>> THEN <<>> ELSE Head(parts) \o Concat(Tail(parts))

\* s.startswith(p)
StartsWith(s, p) ==
    Len(p) <= Len(s) /\ SubSeq(s, 1, Len(p)) = p

\* s.endswith(p)
EndsWith(s, p) ==
    Len(p) <= Len(s) /\ SubSeq(s, Len(s) - Len(p) + 1, Len(s)) = p

\* s[-n:]
LastN(s, n) ==
    IF Len(s) <= n THEN s ELSE SubSeq(s, Len(s) - n + 1, Len(s))

RECURSIVE Replace(_, _, _)
\* s.replace(old, new) for a non-empty old: leftmost matches, not overlapping
Replace(s, old, new) ==
    IF s = <<>> THEN <<>>
    ELSE IF StartsWith(s, old)
         THEN new \o Replace(SubSeq(s, Len(old) + 1, Len(s)), old, new)
         ELSE <<Head(s)>> \o Replace(Tail(s), old, new)

RECURSIVE RStrip(_, _)
\* s.rstrip(chars)
RStrip(s, chars) ==
    IF s # <<>> /\ s[Len(s)] \in chars
    THEN RStrip(SubSeq(s, 1, Len(s) - 1), chars)
    ELSE s

RECURSIVE SplitlinesFrom(_, _)
\* str.splitlines(keepends=True), with the line read so far
SplitlinesFrom(s, cur) ==
    IF s = <<>> THEN (IF cur = <<>> THEN <<>> ELSE <<cur>>)
    ELSE IF StartsWith(s, CRLF)
         THEN <<cur \o CRLF>> \o SplitlinesFrom(SubSeq(s, 3, Len(s)), <<>>)
         ELSE IF Head(s) \in LineBoundaries
              THEN <<cur \o <<Head(s)>> >> \o SplitlinesFrom(Tail(s), <<>>)
              ELSE SplitlinesFrom(Tail(s), cur \o <<Head(s)>>)

\* str.splitlines(keepends=True): a line ends at "\r\n" or at any one of the
\* line boundaries
Splitlines(s) == SplitlinesFrom(s, <<>>)

---------------------------------------------------------------------------
(* Line endings: lsp_server._get_line_endings, _match_line_endings *)

\* Python's None where a line ending is expected (no line ending is empty)
NoEnding == <<>>

\* the ending of the first line; None when there is no line
\* (lines[0] raises IndexError, which the function catches)
_get_line_endings(lines) ==
    IF lines = <<>> THEN NoEnding
    ELSE IF LastN(lines[1], 2) = CRLF THEN CRLF ELSE <<LF>>

\* the text with the formatter's line ending (that of its first line) replaced by
\* the document's (that of its first line)
_match_line_endings(source, text) ==
    LET expected == _get_line_endings(Splitlines(source))
        actual == _get_line_endings(Splitlines(text))
    IN  IF actual = expected \/ actual = NoEnding \/ expected = NoEnding
        THEN text
        ELSE Replace(text, actual, expected)

\* the lines the texts given to _match_line_endings are made of: LF- and CRLF-terminated
LELines == { c \o t : c \in {<<>>, <<"x">>}, t \in {<<LF>>, CRLF} }

\* the texts of at most MaxLines such lines
LETexts == { Concat(ls) : ls \in UNION { [1..n -> LELines] : n \in 0..MaxLines } }

---------------------------------------------------------------------------
(* Paths: sequences of components, "/" the empty sequence *)

RECURSIVE normpath(_)
\* os.path.normpath of an absolute path: "." dropped, "x/.." collapsed, ".." at
\* the root dropped
normpath(p) ==
    IF p = <<>> THEN <<>>
    ELSE LET q == normpath(SubSeq(p, 1, Len(p) - 1))
             c == p[Len(p)]
         IN  IF c = "." THEN q
             ELSE IF c = ".." THEN (IF q = <<>> THEN <<>> ELSE SubSeq(q, 1, Len(q) - 1))
             ELSE q \o <<c>>

\* is_same_path: equal after normalisation (normcase is the identity on POSIX)
is_same_path(file_path1, file_path2) ==
    normpath(file_path1) = normpath(file_path2)

\* the directory the server was started in
SERVER_CWD == <<"srv">>

\* sys.executable
sys_executable == <<"usr", "bin", "python">>

\* is_current_interpreter
is_current_interpreter(executable) == is_same_path(executable, sys_executable)

---------------------------------------------------------------------------
(* The in-process run: lsp_utils.run_module, _run_module, substitute_attr,   *)
(* redirect_io, change_cwd.  A process state ps is [sys, cwd].               *)

\* MAX_WORKERS of the language server
MAX_WORKERS == 5

Workers == 1..MAX_WORKERS

\* the ways runpy.run_module(module, run_name="__main__") can end
Endings == {"return", "SystemExit", "Exception"}

\* the stream objects of the process at start-up
Sys0 == [argv |-> <<"lsp_server.py">>,
         stdin |-> <<"TextIO", "<stdin>", 0>>,
         stdout |-> <<"TextIO", "<stdout>", 0>>,
         stderr |-> <<"TextIO", "<stderr>", 0>>]

\* the identities of the stream objects a set of sys records refers to
StreamIds(ss) == UNION { {s.stdin[3], s.stdout[3], s.stderr[3]} : s \in ss }

\* the identity of a newly constructed object: one no record of ss refers to
Fresh(ss) == CHOOSE n \in 1..(3 * Cardinality(ss) + 1) :
                 /\ n \notin StreamIds(ss)
                 /\ \A m \in 1..(n - 1) : m \in StreamIds(ss)

\* what an attribute holds when a substitute_attr / redirect_io block is left:
\* the generator resumes after its yield only when the block ends normally; an
\* exception is thrown into it at the yield and the setattr after it never runs
substitute_attr_exit(old, new, ending) ==
    IF ending = "return" THEN old ELSE new

\* sys inside the with blocks of _run_module or _run_api: argv, stdout, stderr,
\* stdin replaced (use_stdin is true and source is a string for every
\* formatting request); _run_module reads the source from a YapfIO, _run_api
\* from a CustomIO
SysEntered(s, argv, id, entry) ==
    [argv |-> argv,
     stdin |-> <<IF entry = "run_api" THEN "CustomIO" ELSE "YapfIO", "<stdin>", id>>,
     stdout |-> <<"CustomIO", "<stdout>", id>>,
     stderr |-> <<"CustomIO", "<stderr>", id>>]

\* sys after the with blocks of _run_module are left
SysLeft(saved, cur, ending) ==
    [argv |-> substitute_attr_exit(saved.argv, cur.argv, ending),
     stdin |-> substitute_attr_exit(saved.stdin, cur.stdin, ending),
     stdout |-> substitute_attr_exit(saved.stdout, cur.stdout, ending),
     stderr |-> substitute_attr_exit(saved.stderr, cur.stderr, ending)]

\* os.getcwd() after os.chdir(new_cwd): the directory without "." and ".."
chdir(new_cwd) == normpath(new_cwd)

\* the working directory when change_cwd's block is left: _run_module catches
\* SystemExit itself, so only another exception leaves the block by raising
change_cwd_exit(cur, ending) ==
    IF ending = "Exception" THEN cur ELSE SERVER_CWD

\* the cwd settings the runs of the workers ask for: the server's directory,
\* written with a "." component, and a workspace directory
RunCwds == {<<"srv", ".">>, <<"ws">>}

\* the job of a worker that is in neither run_module nor run_api
NoJob == [entry |-> "run_module", cwd |-> SERVER_CWD, argv |-> <<>>, changed |-> FALSE,
          saved |-> Sys0]

\* a request reaches run_module(module, argv, use_stdin, cwd, source) on worker w
RunStart(w, c) ==
    /\ pc[w] = "idle"
    /\ job' = [job EXCEPT ![w] = [entry |-> "run_module", cwd |-> c, argv |-> <<"yapf">>,
                                  changed |-> FALSE, saved |-> Sys0]]
    /\ pc' = [pc EXCEPT ![w] = "waiting"]
    /\ UNCHANGED <<sys, cwd, CWD_LOCK>>

\* a caller reaches run_api(callback, argv, use_stdin, cwd, source) on worker w:
\* the same lock, cwd change and substitutions around a callback
RunApiStart(w, c) ==
    /\ pc[w] = "idle"
    /\ job' = [job EXCEPT ![w] = [entry |-> "run_api", cwd |-> c, argv |-> <<"yapf">>,
                                  changed |-> FALSE, saved |-> Sys0]]
    /\ pc' = [pc EXCEPT ![w] = "waiting"]
    /\ UNCHANGED <<sys, cwd, CWD_LOCK>>

\* a variant: run_module without the lock
LockAcquireNoLock(w) ==
    /\ pc[w] = "waiting"
    /\ CWD_LOCK' = w
    /\ pc' = [pc EXCEPT ![w] = "locked"]
    /\ UNCHANGED <<sys, cwd, job>>

\* a worker takes CWD_LOCK (with CWD_LOCK:)
LockAcquire(w) ==
    /\ pc[w] = "waiting"
    /\ CWD_LOCK = 0
    /\ CWD_LOCK' = w
    /\ pc' = [pc EXCEPT ![w] = "locked"]
    /\ UNCHANGED <<sys, cwd, job>>

\* run_module / run_api up to the call of the tool: the cwd check, change_cwd's chdir and
\* the substitutions of _run_module
RunEnter(w) ==
    /\ pc[w] = "locked"
    /\ LET same == is_same_path(cwd, job[w].cwd)
           id == Fresh({sys} \cup {job[v].saved : v \in Workers})
       IN  /\ cwd' = IF same THEN cwd ELSE chdir(job[w].cwd)
           /\ job' = [job EXCEPT ![w].changed = ~same, ![w].saved = sys]
           /\ sys' = SysEntered(sys, job[w].argv, id, job[w].entry)
    /\ pc' = [pc EXCEPT ![w] = "running"]
    /\ UNCHANGED CWD_LOCK

\* the tool ends and the blocks of _run_module / _run_api and change_cwd are left
RunLeave(w, ending) ==
    /\ pc[w] = "running"
    /\ sys' = SysLeft(job[w].saved, sys, ending)
    /\ cwd' = IF job[w].changed THEN change_cwd_exit(cwd, ending) ELSE cwd
    /\ UNCHANGED job
    /\ pc' = [pc EXCEPT ![w] = "leaving"]
    /\ UNCHANGED CWD_LOCK

\* the with CWD_LOCK block is left, by return or by exception
LockRelease(w) ==
    /\ pc[w] = "leaving"
    /\ CWD_LOCK' = 0
    /\ pc' = [pc EXCEPT ![w] = "idle"]
    /\ job' = [job EXCEPT ![w] = NoJob]
    /\ UNCHANGED <<sys, cwd>>

---------------------------------------------------------------------------
(* ast.parse on the sources of the model: names (runs of "x"), commas,       *)
(* parentheses, blanks and newlines.  A statement is an expression list; a   *)
(* newline ends it outside parentheses; an indented first token is an        *)
(* IndentationError (a SyntaxError).                                         *)

\* the scanner's states: S at the start of a line, I after blanks at the start
\* of a line, N inside a name, A after an operand, C after a comma, E after "("
ParseError == [ok |-> FALSE, body |-> <<>>]

\* the body with the statement that began at line first and ends at line ln
Ended(body, first, ln) == Append(body, [lineno |-> first, end_lineno |-> ln])

RECURSIVE ParseFrom(_, _, _, _, _, _)
\* the rest s of the source, at line ln, inside depth parentheses, in state st;
\* the statement being read began at line first; body holds those already read
ParseFrom(s, ln, depth, st, first, body) ==
    IF s = <<>>
    THEN IF st \in {"S", "I"} THEN [ok |-> TRUE, body |-> body]
         ELSE IF depth = 0 /\ st \in {"N", "A", "C"}
              THEN [ok |-> TRUE, body |-> Ended(body, first, ln)]
              ELSE ParseError
    ELSE LET c == Head(s)
             nl == c \in {CR, LF}
             r == IF StartsWith(s, CRLF) THEN SubSeq(s, 3, Len(s)) ELSE Tail(s)
         IN  IF nl
             THEN IF st \in {"S", "I"} THEN ParseFrom(r, ln + 1, 0, "S", first, body)
                  ELSE IF depth > 0
                       THEN ParseFrom(r, ln + 1, depth, IF st = "N" THEN "A" ELSE st, first, body)
                       ELSE ParseFrom(r, ln + 1, 0, "S", first, Ended(body, first, ln))
             ELSE IF c \in {SP, TAB}
             THEN ParseFrom(r, ln, depth,
                            IF st = "S" THEN "I" ELSE IF st = "N" THEN "A" ELSE st,
                            first, body)
             ELSE IF st = "I" THEN ParseError
             ELSE IF c = "x"
             THEN IF st = "A" THEN ParseError
                  ELSE ParseFrom(r, ln, depth, "N", IF st = "S" THEN ln ELSE first, body)
             ELSE IF c = "("
             THEN IF st = "S" THEN ParseFrom(r, ln, 1, "E", ln, body)
                  ELSE ParseFrom(r, ln, depth + 1, "E", first, body)
             ELSE IF c = ")"
             THEN IF depth > 0 THEN ParseFrom(r, ln, depth - 1, "A", first, body)
                  ELSE ParseError
             ELSE IF c = ","
             THEN IF st \in {"N", "A"} THEN ParseFrom(r, ln, depth, "C", first, body)
                  ELSE ParseError
             ELSE ParseError

\* ast.parse(source): ok is false for a SyntaxError; body holds the line range
\* of each top-level statement
ast_parse(source) == ParseFrom(source, 1, 0, "S", 1, <<>>)

---------------------------------------------------------------------------
(* Notebook cell magics: lsp_utils.is_cell_magic, encode_cell_magic,         *)
(* decode_cell_magic                                                         *)

\* "\x00"
NUL == "NUL"

\* "#\x00%\x00#", what a "%" of a magic line is replaced by
MagicMask == <<"#", NUL, "%", NUL, "#">>

\* constants.PYTHON_CELL_MAGICS, the magic names known without configuration
PYTHON_CELL_MAGICS == { <<"t">> }

RECURSIVE SplitFrom(_, _, _)
\* s.split(sep) for a one-character sep, with the piece read so far
SplitFrom(s, sep, cur) ==
    IF s = <<>> THEN <<cur>>
    ELSE IF Head(s) = sep THEN <<cur>> \o SplitFrom(Tail(s), sep, <<>>)
         ELSE SplitFrom(Tail(s), sep, cur \o <<Head(s)>>)

\* the alternatives of the group "(" + "|".join(names) + ")" of the pattern: the
\* names are not escaped, so a "|" inside a name separates two alternatives;
\* without any name the group is empty
RegexAlternatives(names) ==
    IF names = {} THEN { <<>> }
    ELSE UNION { { SplitFrom(m, "|", <<>>)[i] : i \in 1..Len(SplitFrom(m, "|", <<>>)) } :
                 m \in names }

\* the alternative matches at the start of s: a "." of a name matches any
\* character but a newline, every other character of the names used here
\* matches itself
RegexMatches(s, alt) ==
    /\ Len(s) >= Len(alt)
    /\ \A i \in 1..Len(alt) : IF alt[i] = "." THEN s[i] # LF ELSE s[i] = alt[i]

\* is_cell_magic: the pattern "^%{1,2}(name|...)" is found in the line, that is,
\* the line starts with "%" or "%%" and then matches one of the alternatives
is_cell_magic(code_line, python_cell_magics) ==
    \E alt \in RegexAlternatives(PYTHON_CELL_MAGICS \cup python_cell_magics) :
        \E k \in 1..2 :
            /\ Len(code_line) >= k
            /\ \A i \in 1..k : code_line[i] = "%"
            /\ RegexMatches(SubSeq(code_line, k + 1, Len(code_line)), alt)

\* encode_line_magic
encode_line_magic(code_line) == Replace(code_line, <<"%">>, MagicMask)

RECURSIVE Join(_, _)
\* sep.join(parts)
Join(sep, parts) ==
    IF parts = <<>> THEN <<>>
    ELSE IF Len(parts) = 1 THEN parts[1]
         ELSE parts[1] \o sep \o Join(sep, Tail(parts))

\* encode_cell_magic: the magic lines of the code masked, the others kept
encode_cell_magic(code, python_cell_magics) ==
    LET lines == SplitFrom(code, LF, <<>>)
    IN  Join(<<LF>>, [i \in 1..Len(lines) |->
                        IF is_cell_magic(lines[i], python_cell_magics)
                        THEN encode_line_magic(lines[i])
                        ELSE lines[i]])

\* decode_cell_magic (decode_line_magic on the whole code)
decode_cell_magic(code) == Replace(code, MagicMask, <<"%">>)

---------------------------------------------------------------------------
(* Settings: lsp_server._get_global_defaults, _update_workspace_settings,    *)
(* _get_document_key, _get_settings_by_document                              *)

TOOL_MODULE == "yapf"

TOOL_ARGS == <<>>

\* file_path.parent
parent(p) == IF p = <<>> THEN <<>> ELSE SubSeq(p, 1, Len(p) - 1)

\* GLOBAL_SETTINGS before initialize: no key is set
NoGlobals == [has |-> {}, path |-> <<>>, interpreter |-> <<>>, args |-> <<>>,
              cellMagics |-> {}]

\* _get_global_defaults: GLOBAL_SETTINGS.get(key, default) for each key
_get_global_defaults(G) ==
    [path |-> IF "path" \in G.has THEN G.path ELSE <<>>,
     interpreter |-> IF "interpreter" \in G.has THEN G.interpreter ELSE <<sys_executable>>,
     args |-> IF "args" \in G.has THEN G.args ELSE <<>>,
     cellMagics |-> IF "cellMagics" \in G.has THEN G.cellMagics ELSE {}]

\* the settings of the workspace at key, made of a settings object d:
\* {"cwd": key, **d, "workspaceFS": key}, so a cwd of d's own replaces key
WithKey(key, d) ==
    [cwd |-> IF "cwd" \in DOMAIN d THEN d.cwd ELSE key, workspaceFS |-> key, path |-> d.path, interpreter |-> d.interpreter,
     args |-> d.args, cellMagics |-> d.cellMagics]

\* WORKSPACE_SETTINGS[key] = value, on a set of settings keyed by workspaceFS
DictSet(W, value) == { s \in W : s.workspaceFS # value.workspaceFS } \cup {value}

RECURSIVE UpdateEach(_, _)
\* the loop of _update_workspace_settings over the settings given
UpdateEach(W, settings) ==
    IF settings = <<>> THEN W
    ELSE UpdateEach(DictSet(W, WithKey(Head(settings).workspace, Head(settings))),
                    Tail(settings))

\* _update_workspace_settings: without settings, one entry for os.getcwd() made
\* of the global defaults
_update_workspace_settings(W, G, settings, getcwd) ==
    IF settings = <<>> THEN DictSet(W, WithKey(getcwd, _get_global_defaults(G)))
    ELSE UpdateEach(W, settings)

\* _get_document_key returning None
NoKey == <<>>

RECURSIVE KeyFrom(_, _)
\* the loop of _get_document_key: the path, then its parents, the root excluded
KeyFrom(p, workspaces) ==
    IF p = parent(p) THEN NoKey
    ELSE IF p \in workspaces THEN p
         ELSE KeyFrom(parent(p), workspaces)

\* _get_document_key
_get_document_key(W, path) ==
    IF W # {} THEN KeyFrom(path, { s.workspaceFS : s \in W }) ELSE NoKey

\* _get_settings_by_document, for a document with a path
_get_settings_by_document(W, G, path) ==
    LET key == _get_document_key(W, path)
    IN  IF key = NoKey THEN WithKey(parent(path), _get_global_defaults(G))
        ELSE CHOOSE s \in W : s.workspaceFS = key

---------------------------------------------------------------------------
(* Running the tool on a document: lsp_server._is_ignored,                   *)
(* _run_tool_on_document, lsp_utils.run_path, run_module                     *)

\* lsp_utils._site_paths: the site-packages directories
_site_paths == { <<"site">> }

RECURSIVE PathStringFrom(_, _)
\* the components of p from index i on, each after a "/"
PathStringFrom(p, i) ==
    IF i > Len(p) THEN "" ELSE "/" \o p[i] \o PathStringFrom(p, i + 1)

\* the string of an absolute path, as os.path.normpath returns it
PathString(p) == IF p = <<>> THEN "/" ELSE PathStringFrom(p, 1)

\* str.startswith: the first Len(prefix) characters of s are prefix
startswith(s, prefix) ==
    Len(s) >= Len(prefix) /\ SubSeq(s, 1, Len(prefix)) = prefix

\* is_stdlib_file: a prefix test on the characters of the normalised path, so
\* that a directory whose name begins with the name of a site-packages
\* directory counts as well
is_stdlib_file(file_path) ==
    \E sp \in _site_paths :
        startswith(PathString(normpath(file_path)), PathString(normpath(sp)))

\* the text read back from a text stream opened with newline=None (CustomIO's
\* get_value, the pipes of run_path): "\r\n" and "\r" are read as "\n"
UniversalNewlines(text) == Replace(Replace(text, CRLF, <<LF>>), <<CR>>, <<LF>>)

RECURSIVE ExcludeFrom(_, _)
\* the loop of _get_exclude_from_args from index idx of args[:-1]
ExcludeFrom(args, idx) ==
    IF idx >= Len(args) THEN <<>>
    ELSE (IF args[idx] \in {"-e", "--exclude"} THEN <<args[idx + 1]>> ELSE <<>>)
         \o ExcludeFrom(args, idx + 1)

\* _get_exclude_from_args
_get_exclude_from_args(settings) ==
    IF settings.args = <<>> THEN <<>> ELSE ExcludeFrom(settings.args, 1)

RECURSIVE rstrip_slashes(_)
\* e.rstrip("/" + os.path.sep) of a pattern
rstrip_slashes(e) ==
    IF Len(e) > 0 /\ SubSeq(e, Len(e), Len(e)) = "/"
    THEN rstrip_slashes(SubSeq(e, 1, Len(e) - 1))
    ELSE e

\* yapf's file_resources.IsIgnored for patterns without wildcards: the path,
\* relative to the workspace, is one of the patterns
IsIgnored(rel, exclude) ==
    Len(rel) = 1 /\ \E i \in 1..Len(exclude) : exclude[i] = rel[1]

\* _is_ignored: [ignored, log]; doc.yapfignore is what yapf's
\* GetExcludePatternsForDir reads in the workspace
_is_ignored(W, G, doc) ==
    LET settings == _get_settings_by_document(W, G, doc.path)
        ws == settings.workspaceFS
        rel == IF StartsWith(doc.path, ws) THEN SubSeq(doc.path, Len(ws) + 1, Len(doc.path))
               ELSE doc.path
        exclude == doc.yapfignore
    IN  IF \E i \in 1..Len(exclude) : startswith(exclude[i], "./")
        THEN [ignored |-> FALSE, log |-> << <<"error", "exclude">> >>]
        ELSE [ignored |-> IsIgnored(rel, _get_exclude_from_args(settings)
                                         \o [i \in 1..Len(exclude) |-> rstrip_slashes(exclude[i])]),
              log |-> <<>>]

\* a variant: the interpreter setting is looked at before the path setting
BackendInterpreterFirst(settings) ==
    IF settings.interpreter # <<>> /\ ~is_current_interpreter(settings.interpreter[1])
    THEN "rpc"
    ELSE IF settings.path # <<>> THEN "path" ELSE "module"

\* the backend _run_tool_on_document chooses (use_path, use_rpc)
Backend(settings) ==
    IF settings.path # <<>> THEN "path"
    ELSE IF settings.interpreter # <<>> /\ ~is_current_interpreter(settings.interpreter[1])
         THEN "rpc"
         ELSE "module"

\* the argument vector of _run_tool_on_document with use_stdin
Argv(settings, extra_args) ==
    (IF Backend(settings) = "path" THEN settings.path ELSE <<TOOL_MODULE>>)
        \o TOOL_ARGS \o settings.args \o extra_args

\* what the formatter does when it is run: what it writes and how it ends
PathEnvs == [stdout : {<<>>, <<LF>>, <<"y", LF>>}, stderr : {<<>>, <<"e">>},
             ending : {"exit0", "exit1", "OSError"}]

ModuleEnvs == [stdout : {<<>>, <<"y", LF>>}, stderr : {<<>>, <<"e">>},
               ending : Endings]

RpcEnvs == [stdout : {<<>>, <<"y", CR, LF>>}, stderr : {<<>>, <<"e">>},
            ending : {"ok", "exception"}]

\* lsp_jsonrpc.run_over_json_rpc: the result of the call, with the exception
\* of a failed call; what stdout and stderr a failed call comes with is not
\* settled here, so every combination is allowed
run_over_json_rpc(env) ==
    [stdout |-> env.stdout, stderr |-> env.stderr,
     exception |-> IF env.ending = "exception" THEN <<"e">> ELSE <<>>]

\* the process state after run_module: the blocks entered and left in one go
run_module_ps(ps, argv, c, ending) ==
    LET same == is_same_path(ps.cwd, c)
    IN  [sys |-> SysLeft(ps.sys, SysEntered(ps.sys, argv, Fresh({ps.sys}), "run_module"), ending),
         cwd |-> IF same THEN ps.cwd ELSE change_cwd_exit(chdir(c), ending)]

\* what the in-process branch of _run_tool_on_document raises: an exception
\* of run_module is logged and raised again
ModuleRaised(ending) == IF ending = "Exception" THEN "Exception" ELSE ""

\* what the rpc branch of _run_tool_on_document raises: nothing; the exception
\* of the result is logged and dropped, its stdout and stderr are kept
RpcRaised(rpc) == ""

\* the result of the chosen backend: [raised, stdout, stderr, log, ps]
RunBackend(backend, argv, settings, env, ps) ==
    IF backend = "path"
    THEN IF env.ending = "OSError"
         THEN [raised |-> "OSError", stdout |-> <<>>, stderr |-> <<>>,
               log |-> << <<"log", "argv">>, <<"log", "cwd">> >>, ps |-> ps]
         ELSE [raised |-> "", stdout |-> UniversalNewlines(env.stdout),
               stderr |-> UniversalNewlines(env.stderr),
               log |-> << <<"log", "argv">>, <<"log", "cwd">> >>
                       \o (IF env.stderr # <<>> THEN << <<"log", "stderr">> >> ELSE <<>>),
               ps |-> ps]
    ELSE IF backend = "rpc"
    THEN LET rpc == run_over_json_rpc(env)
         IN  [raised |-> RpcRaised(rpc), stdout |-> rpc.stdout, stderr |-> rpc.stderr,
              log |-> << <<"log", "argv">>, <<"log", "cwd">> >>
                      \o (IF rpc.exception # <<>> THEN << <<"error", "exception">> >>
                          ELSE IF rpc.stderr # <<>> THEN << <<"log", "stderr">> >>
                          ELSE <<>>),
              ps |-> ps]
    ELSE LET raised == ModuleRaised(env.ending)
             lost == env.ending = "Exception"
         IN  [raised |-> raised,
              stdout |-> IF lost THEN <<>> ELSE UniversalNewlines(env.stdout),
              stderr |-> IF lost THEN <<>> ELSE UniversalNewlines(env.stderr),
              log |-> << <<"log", "argv">>, <<"log", "cwd">> >>
                      \o (IF lost THEN << <<"error", "traceback">> >>
                          ELSE IF env.stderr # <<>> THEN << <<"log", "stderr">> >>
                          ELSE <<>>),
              ps |-> run_module_ps(ps, argv, settings.cwd, env.ending)]

\* a variant: a run that failed is attempted a second time
AttemptsRetried(inv, raised) ==
    IF raised # "" \/ inv.ending \in {"exit1", "exception"} THEN <<inv, inv>> ELSE <<inv>>

\* the runs _run_tool_on_document makes of the formatter: the one call in the
\* branch of the chosen backend, whatever its outcome
Attempts(inv, raised) == <<inv>>

\* _run_tool_on_document(document, use_stdin=True, extra_args):
\* [raised, none, stdout, invs, log, ps]; none when it returns None
_run_tool_on_document(W, G, doc, extra_args, env, ps) ==
    LET lfsource == Replace(doc.source, CRLF, <<LF>>)
        has_magics == doc.notebook /\ ~ast_parse(lfsource).ok
        blank_cell_trail == doc.notebook /\ EndsWith(RStrip(lfsource, {SP, TAB}), <<LF>>)
        settings == _get_settings_by_document(W, G, doc.path)
        backend == Backend(settings)
        argv == Argv(settings, extra_args)
        source0 == IF backend = "path" THEN lfsource ELSE doc.source
        source == IF has_magics THEN encode_cell_magic(source0, settings.cellMagics)
                  ELSE source0
        r == RunBackend(backend, argv, settings, env, ps)
        out1 == IF has_magics THEN decode_cell_magic(r.stdout) ELSE r.stdout
        out2 == IF doc.notebook /\ ~blank_cell_trail THEN RStrip(out1, {LF}) ELSE out1
        inv == [backend |-> backend, argv |-> argv, cwd |-> settings.cwd, source |-> source,
                wrote |-> env.stdout, errors |-> env.stderr, ending |-> env.ending]
    IN  IF is_stdlib_file(doc.path)
        THEN [raised |-> "", none |-> TRUE, stdout |-> <<>>, invs |-> <<>>,
              log |-> <<>>, ps |-> ps]
        ELSE [raised |-> r.raised, none |-> FALSE,
              stdout |-> IF r.raised = "" THEN out2 ELSE <<>>,
              invs |-> Attempts(inv, r.raised), log |-> r.log, ps |-> r.ps]

---------------------------------------------------------------------------
(* The request handlers: lsp_server._formatting_helper, formatting,          *)
(* range_formatting, on_type_formatting, initialize                          *)

\* the most lines a range or a position of a request names
MaxLine == 2

\* document.lines
DocLines(doc) == Splitlines(doc.source)

\* what a handler gives the client: a result (null or a list of edits) or an
\* error, when the handler raised
Null == [kind |-> "result", null |-> TRUE, edits |-> <<>>, error |-> ""]

EditList(edits) == [kind |-> "result", null |-> FALSE, edits |-> edits, error |-> ""]

ErrorResponse(exc) == [kind |-> "error", null |-> FALSE, edits |-> <<>>, error |-> exc]

NoResponse == [kind |-> "none", null |-> FALSE, edits |-> <<>>, error |-> ""]

\* the one edit of _formatting_helper: the whole document replaced
WholeDocumentEdit(doc, stdout) ==
    [start |-> <<0, 0>>, end |-> <<Len(DocLines(doc)), 0>>,
     new_text |-> _match_line_endings(doc.source, stdout)]

\* _formatting_helper: [response, invs, log, ps]; result.stdout of a None result
\* raises AttributeError
_formatting_helper(W, G, doc, extra_args, env, ps) ==
    LET ig == _is_ignored(W, G, doc)
        r == _run_tool_on_document(W, G, doc, extra_args, env, ps)
    IN  IF ig.ignored
        THEN [response |-> Null, invs |-> <<>>, log |-> ig.log, ps |-> ps]
        ELSE [response |->
                 IF r.raised # "" THEN ErrorResponse(r.raised)
                 ELSE IF r.none THEN ErrorResponse("AttributeError")
                 ELSE IF r.stdout # <<>>
                      THEN EditList(<<WholeDocumentEdit(doc, r.stdout)>>)
                      ELSE Null,
              invs |-> r.invs, log |-> ig.log \o r.log, ps |-> r.ps]

\* "if edits: return edits" and "return None" of the three handlers
ReturnEdits(h) ==
    IF h.response.kind = "result" /\ h.response.edits = <<>>
    THEN [h EXCEPT !.response = Null]
    ELSE h

\* f"{start}-{end}"
LineRange(start, end) == ToString(start) \o "-" \o ToString(end)

\* a variant: the handler passes the 0-based lines of the request
range_extra_args_zero_based(start_line, end_line) ==
    <<"-l", LineRange(start_line, end_line)>>

\* the extra arguments of range_formatting
range_extra_args(start_line, end_line) ==
    <<"-l", LineRange(start_line + 1, end_line + 1)>>

\* sequence[i] of Python for i >= -1: [ok, value]
PyIndex(seq, i) ==
    IF i = -1 THEN (IF seq = <<>> THEN [ok |-> FALSE, value |-> <<>>]
                    ELSE [ok |-> TRUE, value |-> seq[Len(seq)]])
    ELSE IF i < Len(seq) THEN [ok |-> TRUE, value |-> seq[i + 1]]
         ELSE [ok |-> FALSE, value |-> <<>>]

\* the early return of on_type_formatting on the line before the position
OnTypeSkips(line) ==
    \/ RStrip(line, {SP, TAB, LF}) = <<>>
    \/ EndsWith(RStrip(line, {LF}), <<",">>)

\* the loop of on_type_formatting over ast_tree.body: the range of the first
\* statement that holds the position's line, else that of the last statement
NodeRange(body, position_lineno) ==
    LET hits == { i \in 1..Len(body) :
                    position_lineno >= body[i].lineno /\ position_lineno <= body[i].end_lineno }
        i == IF hits = {} THEN Len(body)
             ELSE CHOOSE j \in hits : \A k \in hits : j <= k
    IN  body[i]

\* a variant: a source that does not parse is formatted as a whole
OnTypeParseErrorFormats(W, G, doc, env, ps) ==
    _formatting_helper(W, G, doc, <<>>, env, ps)

\* what on_type_formatting does when ast.parse raises SyntaxError
OnTypeParseError(W, G, doc, env, ps) ==
    [response |-> Null, invs |-> <<>>, log |-> <<>>, ps |-> ps]

\* on_type_formatting for a position at line position_line
on_type_formatting(W, G, doc, position_line, env, ps) ==
    LET quiet(resp) == [response |-> resp, invs |-> <<>>, log |-> <<>>, ps |-> ps]
        line == PyIndex(DocLines(doc), position_line - 1)
        lfsource == Replace(doc.source, CRLF, <<LF>>)
        settings == _get_settings_by_document(W, G, doc.path)
        source == IF doc.notebook THEN encode_cell_magic(lfsource, settings.cellMagics)
                  ELSE lfsource
        tree == ast_parse(source)
        node == NodeRange(tree.body, position_line)
    IN  IF ~line.ok THEN quiet(ErrorResponse("IndexError"))
        ELSE IF OnTypeSkips(line.value) THEN quiet(Null)
        ELSE IF ~tree.ok THEN OnTypeParseError(W, G, doc, env, ps)
        ELSE IF tree.body = <<>> THEN quiet(ErrorResponse("UnboundLocalError"))
        ELSE ReturnEdits(_formatting_helper(W, G, doc,
                 <<"-l", LineRange(node.lineno, node.end_lineno)>>, env, ps))

\* range_formatting for a range from line start_line to line end_line
range_formatting(W, G, doc, start_line, end_line, env, ps) ==
    ReturnEdits(_formatting_helper(W, G, doc, range_extra_args(start_line, end_line), env, ps))

\* formatting
formatting(W, G, doc, env, ps) ==
    ReturnEdits(_formatting_helper(W, G, doc, <<>>, env, ps))

\* the behaviours of the formatter under the backend the settings choose
EnvsOf(W, G, doc) ==
    LET b == Backend(_get_settings_by_document(W, G, doc.path))
    IN  IF b = "path" THEN PathEnvs ELSE IF b = "rpc" THEN RpcEnvs ELSE ModuleEnvs

\* a variant: argv is the stored list itself, which the appends change
StoredPathAliased(stored, argv) == argv

\* a stored path list after a request that ran the executable: the settings
\* are deep-copied before `argv = settings["path"]` and `argv += ...`, so the
\* appends change the copy and the stored list is as it was
StoredPathAfter(stored, argv) == stored

\* WORKSPACE_SETTINGS after _run_tool_on_document made the runs invs for doc:
\* the path list of the workspace's settings is the one argv was made of
WorkspaceSettingsAfter(W, G, doc, invs) ==
    LET key == _get_document_key(W, doc.path)
        st == _get_settings_by_document(W, G, doc.path)
    IN  IF invs # <<>> /\ invs[1].backend = "path" /\ key # NoKey
        THEN DictSet(W, [st EXCEPT !.path = StoredPathAfter(st.path, invs[1].argv)])
        ELSE W

\* GLOBAL_SETTINGS after the runs: for a document of no workspace the path
\* list of the defaults is GLOBAL_SETTINGS["path"]
GlobalSettingsAfter(W, G, doc, invs) ==
    IF /\ invs # <<>> /\ invs[1].backend = "path"
       /\ _get_document_key(W, doc.path) = NoKey /\ "path" \in G.has
    THEN [G EXCEPT !.path = StoredPathAfter(G.path, invs[1].argv)]
    ELSE G

\* a handler has run: the client gets its response
Respond(req, h) ==
    /\ request' = req
    /\ response' = h.response
    /\ invocations' = h.invs
    /\ log' = h.log
    /\ sys' = h.ps.sys
    /\ cwd' = h.ps.cwd
    /\ WORKSPACE_SETTINGS' =
           WorkspaceSettingsAfter(WORKSPACE_SETTINGS, GLOBAL_SETTINGS, document, h.invs)
    /\ GLOBAL_SETTINGS' =
           GlobalSettingsAfter(WORKSPACE_SETTINGS, GLOBAL_SETTINGS, document, h.invs)
    /\ UNCHANGED <<document, CWD_LOCK, pc, job, le, magic>>

\* textDocument/formatting
Formatting ==
    \E env \in EnvsOf(WORKSPACE_SETTINGS, GLOBAL_SETTINGS, document) :
        Respond([method |-> "formatting", start |-> 0, end |-> 0],
                formatting(WORKSPACE_SETTINGS, GLOBAL_SETTINGS, document, env,
                           [sys |-> sys, cwd |-> cwd]))

\* textDocument/rangeFormatting
RangeFormatting ==
    \E start_line \in 0..MaxLine : \E end_line \in start_line..MaxLine :
    \E env \in EnvsOf(WORKSPACE_SETTINGS, GLOBAL_SETTINGS, document) :
        Respond([method |-> "rangeFormatting", start |-> start_line, end |-> end_line],
                range_formatting(WORKSPACE_SETTINGS, GLOBAL_SETTINGS, document,
                                 start_line, end_line, env, [sys |-> sys, cwd |-> cwd]))

\* textDocument/onTypeFormatting, for a position inside the document
OnTypeFormatting ==
    \E position_line \in 0..Len(DocLines(document)) :
    \E env \in EnvsOf(WORKSPACE_SETTINGS, GLOBAL_SETTINGS, document) :
        Respond([method |-> "onTypeFormatting", start |-> position_line, end |-> position_line],
                on_type_formatting(WORKSPACE_SETTINGS, GLOBAL_SETTINGS, document,
                                   position_line, env, [sys |-> sys, cwd |-> cwd]))

\* initialize: GLOBAL_SETTINGS.update and _update_workspace_settings; the first
\* request of a session, sent once
initialize(globalSettings, settings) ==
    /\ request.method = "none"
    /\ GLOBAL_SETTINGS' = globalSettings
    /\ WORKSPACE_SETTINGS' =
           _update_workspace_settings(WORKSPACE_SETTINGS, globalSettings, settings, cwd)
    /\ request' = [method |-> "initialize", start |-> 0, end |-> 0]
    /\ response' = Null
    /\ invocations' = <<>>
    /\ log' = << <<"log", "cwd">>, <<"log", "sys.path">>, <<"log", "settings">>,
                <<"log", "global settings">> >>
    /\ UNCHANGED <<document, sys, cwd, CWD_LOCK, pc, job, le, magic>>

---------------------------------------------------------------------------
(* Variable groups and the states they start in *)

reqVars == <<document, WORKSPACE_SETTINGS, GLOBAL_SETTINGS, request, response,
             invocations, log>>

runVars == <<sys, cwd, CWD_LOCK, pc, job>>

\* no worker is in run_module or run_api
RunIdle ==
    /\ CWD_LOCK = 0
    /\ pc = [w \in Workers |-> "idle"]
    /\ job = [w \in Workers |-> NoJob]

\* the process as it starts
RunInit ==
    /\ RunIdle
    /\ sys = Sys0
    /\ cwd = SERVER_CWD

\* no formatting request has been handled yet
NoRequestYet == request.method \in {"none", "initialize"}

\* no request handled yet, no settings received
ReqIdle ==
    /\ WORKSPACE_SETTINGS = {}
    /\ GLOBAL_SETTINGS = NoGlobals
    /\ request = [method |-> "none", start |-> 0, end |-> 0]
    /\ response = NoResponse
    /\ invocations = <<>>
    /\ log = <<>>

\* a document of a workspace, not a notebook cell
FileDoc(source) ==
    [source |-> source, path |-> <<"ws", "f.py">>, notebook |-> FALSE, yapfignore |-> <<>>]

ReqInit == ReqIdle /\ document = FileDoc(<<>>)

\* no text has been masked
MagicIdle == [text |-> <<>>, magics |-> {}, encoded |-> <<>>, decoded |-> <<>>, done |-> FALSE]

LEIdle == [doc |-> <<>>, text |-> <<>>, out |-> <<>>, done |-> FALSE]

---------------------------------------------------------------------------
(* Spec: the handlers on documents of a workspace, under every setting *)

\* the most lines of a document of Spec
MaxDocLines == 2

\* the longest source of SpecOnType, in characters
MaxSrcLen == 4

\* the lines the documents of Spec are made of
DocLineKinds == { <<"x", LF>>, <<"x", CR, LF>> }

DocSources == { Concat(ls) : ls \in UNION { [1..n -> DocLineKinds] : n \in 0..MaxDocLines } }

\* where a document is and what surrounds it: in the workspace, excluded by its
\* .yapfignore, beside a .yapfignore with a "./" pattern, in site-packages,
\* in a directory whose name begins with that of site-packages, outside every
\* workspace, a notebook cell
DocPlaces ==
    { [path |-> <<"ws", "f.py">>, notebook |-> FALSE, yapfignore |-> <<>>],
      [path |-> <<"ws", "f.py">>, notebook |-> FALSE, yapfignore |-> <<"f.py">>],
      [path |-> <<"ws", "f.py">>, notebook |-> FALSE, yapfignore |-> <<"./f.py">>],
      [path |-> <<"site", "f.py">>, notebook |-> FALSE, yapfignore |-> <<>>],
      [path |-> <<"site2", "f.py">>, notebook |-> FALSE, yapfignore |-> <<>>],
      [path |-> <<"tmp", "f.py">>, notebook |-> FALSE, yapfignore |-> <<>>],
      [path |-> <<"ws", "f.py">>, notebook |-> TRUE, yapfignore |-> <<>>] }

SpecDocs ==
    { [source |-> src, path |-> pl.path, notebook |-> pl.notebook,
       yapfignore |-> pl.yapfignore] : src \in DocSources, pl \in DocPlaces }

\* the settings objects initialize may carry for the workspace
SettingChoices ==
    [workspace : {<<"ws">>},
     path : {<<>>, <<"yapf-bin">>},
     interpreter : {<<>>, <<<<"usr", "bin", ".", "python">>>>, <<<<"opt", "python">>>>},
     args : {<<>>, <<"-e", "f.py">>},
     cellMagics : {{}}]

\* a settings object that names a cwd of its own
CwdSettingChoices ==
    { [workspace |-> <<"ws">>, path |-> <<>>, interpreter |-> <<>>, args |-> <<>>,
       cellMagics |-> {}, cwd |-> <<"other">>] }

\* the globalSettings initialize may carry
GlobalChoices ==
    { NoGlobals,
      [has |-> {"path", "args"}, path |-> <<"yapf-bin">>, interpreter |-> <<>>,
       args |-> <<"--style", "pep8">>, cellMagics |-> {}] }

\* the server has started and a document is open
Init ==
    /\ RunInit /\ ReqIdle /\ le = LEIdle /\ magic = MagicIdle
    /\ document \in SpecDocs

\* initialize may arrive, then the first formatting request is handled
\* (SpecFrame has the requests that follow another)
Next ==
    \/ \E g \in GlobalChoices : \E st \in {<<>>} \cup { <<c>> : c \in SettingChoices \cup CwdSettingChoices } :
           initialize(g, st)
    \/ NoRequestYet /\ Formatting
    \/ NoRequestYet /\ RangeFormatting
    \/ NoRequestYet /\ OnTypeFormatting

Spec == Init /\ [][Next]_vars

\* the three formatting requests
FormattingMethods == {"formatting", "rangeFormatting", "onTypeFormatting"}

\* the settings in force for the open document
DocSettings == _get_settings_by_document(WORKSPACE_SETTINGS, GLOBAL_SETTINGS, document.path)

\* the formatter was invoked for the request through backend b and ended with e
Invoked(b, e) ==
    \E i \in 1..Len(invocations) : invocations[i].backend = b /\ invocations[i].ending = e

\* the formatter itself could not be started or raised while it ran
FormatterRaised == Invoked("module", "Exception") \/ Invoked("path", "OSError")

\* C1: every response to a formatting request is null or a list of exactly one
\* text edit from line 0, character 0 to line N, character 0, N the number of
\* lines of the document; it is never an empty list nor anything else.  Stated
\* here for the whole-document and range requests whose formatter, if it ran,
\* did not raise (the on-type handler has failures of its own).
C1_NullOrOneWholeDocumentEdit ==
    (request.method \in {"formatting", "rangeFormatting"} /\ ~FormatterRaised) =>
        \/ response = Null
        \/ /\ response.kind = "result" /\ ~response.null
           /\ Len(response.edits) = 1
           /\ response.edits[1].start = <<0, 0>>
           /\ response.edits[1].end = <<Len(Splitlines(document.source)), 0>>

\* C3: when the external executable exits with a non-zero status or
\* the in-process run raises an exception, the failure is logged, the request
\* completes with null and no error reaches the client.
C3_FailureLoggedAndNull ==
    (Invoked("path", "exit1") \/ Invoked("module", "Exception")) =>
        /\ \E i \in 1..Len(log) : log[i] \in {<<"log", "stderr">>, <<"error", "traceback">>}
        /\ response = Null

\* C5: the backend of every invocation is the one the settings of the document
\* select by priority: the external executable when the path setting is not
\* empty, whatever the interpreter; else JSON-RPC when an interpreter is set
\* and its first entry is not the interpreter running the server; else the
\* in-process module; and a request uses one backend only.
C5_BackendByPriority ==
    LET st == DocSettings
        other == /\ st.interpreter # <<>>
                 /\ normpath(st.interpreter[1]) # normpath(sys_executable)
    IN  /\ Cardinality({ invocations[i].backend : i \in 1..Len(invocations) }) <= 1
        /\ \A i \in 1..Len(invocations) :
              /\ invocations[i].backend = "path" <=> st.path # <<>>
              /\ invocations[i].backend = "rpc" <=> (st.path = <<>> /\ other)
              /\ invocations[i].backend = "module" <=> (st.path = <<>> /\ ~other)

\* the path setting wins over an interpreter that is not the server's
C5_Witness ==
    /\ invocations # <<>> /\ invocations[1].backend = "path"
    /\ DocSettings.interpreter = <<<<"opt", "python">>>>

\* C8: for a range request from line s to line e the formatter is invoked with
\* "-l", "<s+1>-<e+1>" after the default and the configured arguments, and
\* the adapter adds no other "-l".
C8_RangeArguments ==
    (request.method = "rangeFormatting" /\ invocations # <<>>) =>
        LET st == DocSettings
            a == invocations[1].argv
            n == Len(a)
            head == (IF st.path # <<>> THEN st.path ELSE <<"yapf">>) \o st.args
        IN  /\ n = Len(head) + 2
            /\ SubSeq(a, 1, n - 2) = head
            /\ a[n - 1] = "-l"
            /\ a[n] = ToString(request.start + 1) \o "-" \o ToString(request.end + 1)

\* a range that does not begin at the first line, with configured arguments
C8_Witness ==
    /\ request.method = "rangeFormatting" /\ invocations # <<>>
    /\ request.start = 1 /\ request.end = 2
    /\ DocSettings.args # <<>>

\* C11: every formatting request runs the formatter at most once, through one
\* backend: a failed run is not tried again, neither through the same backend
\* nor through another.
C11_SingleAttempt ==
    request.method \in FormattingMethods =>
        /\ Len(invocations) <= 1
        /\ \A i \in 1..Len(invocations) : invocations[i].backend = Backend(DocSettings)

\* a request whose only run of the formatter failed
C11_Witness ==
    /\ request.method \in FormattingMethods
    /\ Len(invocations) = 1
    /\ invocations[1].ending \in {"exit1", "OSError", "exception", "Exception"}
    /\ response.kind \in {"result", "error"}

---------------------------------------------------------------------------
(* SpecOnType: on-type formatting on every short source *)

OnTypeChars == {"x", ",", "(", ")", SP, TAB, CR, LF}

OnTypeSources == UNION { [1..n -> OnTypeChars] : n \in 0..MaxSrcLen }

InitOnType ==
    /\ RunInit /\ ReqIdle /\ le = LEIdle /\ magic = MagicIdle
    /\ document \in { FileDoc(src) : src \in OnTypeSources }

NextOnType == NoRequestYet /\ OnTypeFormatting

SpecOnType == InitOnType /\ [][NextOnType]_vars

\* C9: an on-type request triggered on a blank line or on a line that ends with
\* a comma gets null and the formatter is not invoked, at every position of
\* the document, line 0 included.
\* A line is taken without its newline ("\r\n" or "\n"): it is blank when
\* only spaces and tabs are left.  The request is triggered on the line above
\* its position, in which the newline was typed; at position line 0, where no
\* line is above, the claim is stated for the documents all of whose lines are
\* blank or end with a comma.
C9_BlankOrCommaLineNoEdit ==
    LET lines == Splitlines(document.source)
        Content(line) ==
            IF EndsWith(line, CRLF) THEN SubSeq(line, 1, Len(line) - 2)
            ELSE IF EndsWith(line, <<LF>>) THEN SubSeq(line, 1, Len(line) - 1)
            ELSE line
        Blank(line) == \A i \in 1..Len(Content(line)) : Content(line)[i] \in {SP, TAB}
        Comma(line) == EndsWith(Content(line), <<",">>)
        triggered == IF request.start >= 1 THEN {lines[request.start]}
                     ELSE {lines[i] : i \in 1..Len(lines)}
    IN  (/\ request.method = "onTypeFormatting"
         /\ document.source # <<>>
         /\ \A line \in triggered : Blank(line) \/ Comma(line))
            => (response = Null /\ invocations = <<>>)

\* the source ast.parse is given for a document that is not a notebook cell
ParsedSource == Replace(document.source, CRLF, <<LF>>)

PassesOnTypeChecks ==
    LET line == PyIndex(DocLines(document), request.start - 1)
    IN  /\ line.ok /\ ~OnTypeSkips(line.value)
        /\ ast_parse(ParsedSource).ok

\* C16: an on-type request that passes the blank/comma and parse checks runs
\* the formatter once with "-l", "<a>-<b>", a and b the first and last line of
\* the top-level statement that holds the triggering line (the position line,
\* counted from 1), for every parsed source.
C16_RangeOfTriggeringStatement ==
    LET body == ast_parse(ParsedSource).body
        n == request.start
        holding == { body[i] : i \in { j \in 1..Len(body) :
                                          body[j].lineno <= n /\ n <= body[j].end_lineno } }
    IN  (request.method = "onTypeFormatting" /\ request.start >= 1 /\ PassesOnTypeChecks) =>
            /\ Len(invocations) = 1
            /\ \E node \in holding :
                  invocations[1].argv = <<TOOL_MODULE, "-l", LineRange(node.lineno, node.end_lineno)>>

---------------------------------------------------------------------------
(* SpecRun: the workers' in-process runs, interleaved *)

InitRun == RunInit /\ ReqInit /\ le = LEIdle /\ magic = MagicIdle

NextRun ==
    /\ \E w \in Workers :
          \/ \E c \in RunCwds : RunStart(w, c)
          \/ \E c \in RunCwds : RunApiStart(w, c)
          \/ LockAcquire(w)
          \/ RunEnter(w)
          \/ \E e \in Endings : RunLeave(w, e)
          \/ LockRelease(w)
    /\ UNCHANGED <<reqVars, le, magic>>

SpecRun == InitRun /\ [][NextRun]_vars

\* the workers inside the with CWD_LOCK block of run_module
InRun == { w \in Workers : pc[w] \in {"locked", "running", "leaving"} }

\* C6: after every in-process run ends (by return, by SystemExit or by another
\* exception) sys.argv, sys.stdin, sys.stdout and sys.stderr hold the values they
\* held just before the run.
C6_SysRestoredAfterRun ==
    \A w \in Workers : pc[w] = "leaving" => sys = job[w].saved

\* C7: at most one in-process run (with its working-directory change and its
\* stdio substitution) executes at any time, the worker executing it holds
\* CWD_LOCK, and the lock is free whenever no run is executing, so that a
\* waiting run can take it.
C7_RunsSerialised ==
    /\ Cardinality(InRun) <= 1
    /\ \A w \in InRun : CWD_LOCK = w
    /\ InRun = {} => CWD_LOCK = 0

\* a run executes while another worker waits for the lock, after an earlier run
\* ended by raising (its stream objects are still the saved values)
C7_Witness ==
    \E w, v \in Workers :
        /\ pc[w] = "running" /\ pc[v] = "waiting"
        /\ job[w].saved # Sys0

\* C14: a run executes with the working directory it asked for, and whenever
\* no run is executing (before the first, between two, after the last, however
\* they ended) the working directory is SERVER_CWD.
C14_CwdRestoredBetweenRuns ==
    /\ \A w \in Workers : pc[w] = "running" => is_same_path(cwd, job[w].cwd)
    /\ (\A w \in Workers : pc[w] # "running") => cwd = SERVER_CWD

---------------------------------------------------------------------------
(* SpecLE: _match_line_endings on every pair of texts *)

\* _formatting_helper applies _match_line_endings to a non-empty stdout
LEApply ==
    /\ ~le.done
    /\ le.text # <<>>
    /\ le' = [le EXCEPT !.out = _match_line_endings(le.doc, le.text), !.done = TRUE]
    /\ UNCHANGED <<reqVars, runVars, magic>>

InitLE ==
    /\ RunInit /\ ReqInit
    /\ le \in [doc : LETexts, text : LETexts, out : {<<>>}, done : {FALSE}]
    /\ magic = MagicIdle

NextLE == LEApply

SpecLE == InitLE /\ [][NextLE]_vars

\* C2: each line of the replacement text ends with the document's line ending,
\* for every document written with one line ending and every formatter output
\* made of LF- and CRLF-terminated lines.
C2_LineEndingsMatch ==
    LET Endings_of(text) ==
            { IF LastN(l, 2) = CRLF THEN CRLF ELSE <<LF>> :
                l \in { Splitlines(text)[i] : i \in 1..Len(Splitlines(text)) } }
    IN  (le.done /\ Cardinality(Endings_of(le.doc)) = 1)
            => Endings_of(le.out) = Endings_of(le.doc)

---------------------------------------------------------------------------
(* SpecMagic: encode_cell_magic and decode_cell_magic on every short text *)

\* the longest text that is masked, in characters
MaxMagicLen == 5

\* the characters of the texts: those of a magic line, of the mask, and a newline
MagicChars == {"%", "t", "x", "#", NUL, LF}

MagicTexts == UNION { [1..n -> MagicChars] : n \in 0..MaxMagicLen }

\* the cellMagics setting: no name, or the name "x"
MagicSettings == { {}, { <<"x">> } }

\* the source is masked before the formatter runs and its output is unmasked:
\* here the formatter leaves the masked text untouched
MagicApply ==
    /\ ~magic.done
    /\ LET encoded == encode_cell_magic(magic.text, magic.magics)
       IN  magic' = [magic EXCEPT !.encoded = encoded,
                                  !.decoded = decode_cell_magic(encoded),
                                  !.done = TRUE]
    /\ UNCHANGED <<reqVars, runVars, le>>

InitMagic ==
    /\ RunInit /\ ReqInit /\ le = LEIdle
    /\ magic \in [text : MagicTexts, magics : MagicSettings, encoded : {<<>>},
                  decoded : {<<>>}, done : {FALSE}]

NextMagic == MagicApply

SpecMagic == InitMagic /\ [][NextMagic]_vars

\* the lines of a text, split at "\n"
MagicLines(text) == SplitFrom(text, LF, <<>>)

\* C12: decode_cell_magic(encode_cell_magic(text, magics)) = text for every
\* text and every list of magic names, and encode_cell_magic changes only the
\* lines that start with "%" or "%%" followed by a recognised magic name (a
\* name of PYTHON_CELL_MAGICS or of the cellMagics setting, as it is written).
C12_MaskingRestoredExactly ==
    LET Recognised(line) ==
            \E m \in PYTHON_CELL_MAGICS \cup magic.magics, p \in {<<"%">>, <<"%", "%">>} :
                StartsWith(line, p \o m)
    IN  magic.done =>
            /\ magic.decoded = magic.text
            /\ Len(MagicLines(magic.encoded)) = Len(MagicLines(magic.text))
            /\ \A i \in 1..Len(MagicLines(magic.text)) :
                  MagicLines(magic.encoded)[i] # MagicLines(magic.text)[i]
                      => Recognised(MagicLines(magic.text)[i])

---------------------------------------------------------------------------
(* SpecSettings: the settings of a document among nested workspace roots *)

\* the workspace roots initialize may name: the file system root, a folder and
\* a folder inside it
WorkspaceRoots == { <<>>, <<"a">>, <<"a", "b">> }

\* the settings object of a workspace root: its args tell the roots apart
RootSettings(r) ==
    [workspace |-> r, path |-> <<>>, interpreter |-> <<>>,
     args |-> <<"--style", IF r = <<>> THEN "/" ELSE IF r = <<"a">> THEN "/a" ELSE "/a/b">>,
     cellMagics |-> {}]

\* the settings lists of initialize: every order of every set of roots
RootSettingsLists ==
    { <<>> } \cup
    { [i \in 1..Len(rs) |-> RootSettings(rs[i])] :
        rs \in { q \in UNION { [1..n -> WorkspaceRoots] : n \in 1..3 } :
                   \A i, j \in 1..Len(q) : i # j => q[i] # q[j] } }

\* documents at the root, in each folder, below the inner folder, in a folder
\* that is no workspace
SettingsDocs ==
    { [source |-> <<"x", LF>>, path |-> p, notebook |-> FALSE, yapfignore |-> <<>>] :
        p \in { <<"f.py">>, <<"a", "f.py">>, <<"a", "b", "f.py">>,
                <<"a", "b", "c", "f.py">>, <<"c", "f.py">> } }

InitSettings ==
    /\ RunInit /\ ReqIdle /\ le = LEIdle /\ magic = MagicIdle
    /\ document \in SettingsDocs

NextSettings ==
    \/ \E g \in GlobalChoices : \E st \in RootSettingsLists : initialize(g, st)
    \/ NoRequestYet /\ Formatting

SpecSettings == InitSettings /\ [][NextSettings]_vars

\* C13: the formatter runs with the settings of the nearest (deepest) known
\* workspace root that is the document's path or an ancestor directory of it;
\* when there is none, with the global defaults and the document's parent
\* directory as cwd.
\* The ancestor directories of a path are all of them, the file system root
\* included.
C13_NearestRootSettings ==
    LET ancestors == { SubSeq(document.path, 1, n) : n \in 0..Len(document.path) }
        roots == { s.workspaceFS : s \in WORKSPACE_SETTINGS } \cap ancestors
    IN  (request.method = "formatting" /\ invocations # <<>>) =>
            IF roots # {}
            THEN LET root == CHOOSE r \in roots : \A q \in roots : Len(q) <= Len(r)
                     st == CHOOSE s \in WORKSPACE_SETTINGS : s.workspaceFS = root
                 IN  /\ invocations[1].cwd = root
                     /\ invocations[1].argv = Argv(st, <<>>)
            ELSE /\ invocations[1].cwd = parent(document.path)
                 /\ invocations[1].argv =
                        (IF "path" \in GLOBAL_SETTINGS.has /\ GLOBAL_SETTINGS.path # <<>>
                         THEN GLOBAL_SETTINGS.path ELSE <<TOOL_MODULE>>)
                        \o (IF "args" \in GLOBAL_SETTINGS.has THEN GLOBAL_SETTINGS.args ELSE <<>>)

---------------------------------------------------------------------------
(* SpecFrame: formatting requests one after another *)

\* the documents of the session: in the workspace and outside every workspace
FrameDocs ==
    { [source |-> <<"x", LF>>, path |-> p, notebook |-> FALSE, yapfignore |-> <<>>] :
        p \in { <<"ws", "f.py">>, <<"tmp", "f.py">> } }

\* the settings of the workspace: the executable, with an argument
FrameSettings ==
    [workspace |-> <<"ws">>, path |-> <<"yapf-bin">>, interpreter |-> <<>>,
     args |-> <<"-p">>, cellMagics |-> {}]

\* what initialize carries: settings for the workspace, or no settings and
\* global settings that name the executable
FrameInitializations ==
    { [globalSettings |-> NoGlobals, settings |-> <<FrameSettings>>] } \cup
    { [globalSettings |-> g, settings |-> <<>>] : g \in GlobalChoices \ {NoGlobals} }

InitFrame ==
    /\ RunInit /\ ReqIdle /\ le = LEIdle /\ magic = MagicIdle
    /\ document \in FrameDocs

\* initialize, then any number of formatting requests
NextFrame ==
    \/ \E i \in FrameInitializations : initialize(i.globalSettings, i.settings)
    \/ Formatting
    \/ RangeFormatting
    \/ OnTypeFormatting

SpecFrame == InitFrame /\ [][NextFrame]_vars

\* C15: a formatting request (whole-document, range, on-type), whatever the
\* requests before it, leaves WORKSPACE_SETTINGS and GLOBAL_SETTINGS as they
\* were, path and args lists included; only initialize writes them.
C15_RequestsKeepSettings ==
    [][request'.method \in FormattingMethods =>
          /\ WORKSPACE_SETTINGS' = WORKSPACE_SETTINGS
          /\ GLOBAL_SETTINGS' = GLOBAL_SETTINGS]_vars

\* a request ran the executable with arguments appended to the path list it
\* read, and the stored path list is still the configured one
C15_Witness ==
    /\ request.method = "rangeFormatting"
    /\ invocations # <<>> /\ invocations[1].backend = "path"
    /\ Len(invocations[1].argv) > Len(DocSettings.path)
    /\ DocSettings.path = <<"yapf-bin">>

=============================================================================
